---- MODULE Spec2Model ----
(***************************************************************************)
(* Token acquisition and refresh state machine of the Pixiv MCP adapter:   *)
(* the credential store (environment variable + token file), the format    *)
(* check, the read paths, the token manager commands, the startup check of *)
(* the server entry points and the browser authorization session; the PKCE *)
(* pair of a fetcher (SpecPkce), the API facade and the tool dispatcher of  *)
(* a serving process (SpecApi), and the two writers of secret files taken   *)
(* statement by statement (SpecPerm).                                       *)
(*                                                                         *)
(* A token is a sequence of one-character strings, so that length checks   *)
(* and str.strip() are computed and not assumed.  An Optional[str] is a    *)
(* record: NoVal is None (unset variable, missing file, no token), and     *)
(* Some(t) carries the string t.                                           *)
(***************************************************************************)
EXTENDS Integers, Sequences, FiniteSets, TLC

VARIABLES
    env,        \* os.environ["PIXIV_REFRESH_TOKEN"]: NoVal (unset) or Some(string)
    file,       \* ~/.pixiv/refresh_token: NoVal (no file) or Some(content)
    credsSaved, \* ~/.pixiv/credentials.json exists
    pwAvail,    \* `import playwright` succeeds
    gpptAvail,  \* `import gppt` succeeds
    cmd,        \* entry point of the current (or last) process run
    pc,         \* position of the run inside the acquisition flow
    runs,       \* number of process runs started
    log,        \* observable events of the current run, in order
    outcome,    \* how the run ended: "none", "serving", "exit0", "exit1"
    declined,   \* the operator answered "no" to ensure_refresh_token's prompt
    args,       \* arguments of the pending get_token_with_playwright call
    sess,       \* the browser authorization session of fetch_code
    newTok,     \* the refresh token the run acquired (NoVal: none)
    file0,      \* content of the token file when the run started
    issued,     \* number of refresh tokens the token endpoint has issued
    dead,       \* refresh tokens that were replaced by a successful refresh
    readBy,     \* last read path applied to the store
    readVal,    \* what that read path returned
    vtIn,       \* last argument of validate_token_format (pure-function check)
    vtOut,      \* its result
    drawn,      \* verifiers secrets.token_urlsafe has returned so far
    attempts,   \* the PixivPlaywrightTokenFetcher objects created, in order
    api,        \* tools._api: the cached standard client of this process
    bypass_api, \* tools._bypass_api: the cached ByPassSniApi client
    result,     \* what the last dispatch gave its caller
    ensureCalls, \* calls of ensure_refresh_token in this process
    umask,      \* the process's file mode creation mask, three octal digits
    fileMode,   \* permission bits of the token file (<<>>: no file); followed
                \* by the step-wise writers only
    credsMode,  \* permission bits of credentials.json
    permPc,     \* position inside setup_token_file / save_user_credentials
    owned,      \* files whose present content this system wrote
    tasks,      \* the HTTP requests in flight on the event loop, by slot
    authCalls   \* calls of _api.auth() on the standard client in this process

vars == <<env, file, credsSaved, pwAvail, gpptAvail, cmd, pc, runs, log, outcome,
          declined, args, sess, newTok, file0, issued, dead, readBy, readVal,
          vtIn, vtOut, drawn, attempts, api, bypass_api, result, ensureCalls,
          umask, fileMode, credsMode, permPc, owned, tasks, authCalls>>

storeVars == <<env, file, credsSaved, pwAvail, gpptAvail>>
runVars   == <<cmd, pc, runs, log, outcome, declined, args, sess, newTok, file0,
               issued, dead>>
readVars  == <<readBy, readVal>>
vtVars    == <<vtIn, vtOut>>
pkceVars  == <<drawn, attempts>>
(* state that the steps of the acquisition flow do not touch *)
procVars  == <<api, bypass_api, result, ensureCalls>>
permVars  == <<umask, fileMode, credsMode, permPc, owned>>
loopVars  == <<tasks, authCalls>>
auxVars   == <<pkceVars, procVars, permVars, loopVars>>

----------------------------------------------------------------------------
(* Bounds of the model *)

MaxRuns == 2        \* process runs per behaviour
MaxEvents == 2      \* network requests the observer sees per session
MaxTokenLen == 22   \* longest token the format check is applied to

(* validate_token_format's threshold: `len(token) < 20` *)
MinTokenLen == 20

MaxTasks == 2       \* HTTP requests in flight at a time
MaxAuthCalls == 2   \* requests are accepted while auth() was called this often

----------------------------------------------------------------------------
(* Strings *)

NoVal == [some |-> FALSE]
Some(t) == [some |-> TRUE, val |-> t]

Fill(c, n) == [i \in 1..n |-> c]

RECURSIVE lstrip(_)
lstrip(s) == IF s # <<>> /\ Head(s) = " " THEN lstrip(Tail(s)) ELSE s

RECURSIVE rstrip(_)
rstrip(s) == IF s # <<>> /\ s[Len(s)] = " " THEN rstrip(SubSeq(s, 1, Len(s) - 1)) ELSE s

(* str.strip() *)
strip(s) == rstrip(lstrip(s))

(* Python truth value of an Optional[str]: None and "" are false *)
Truthy(o) == o.some /\ o.val # <<>>

(* Result of a call that returns a string or raises *)
Ok(t) == [raised |-> FALSE, val |-> t]
Raised == [raised |-> TRUE]

----------------------------------------------------------------------------
(* The format check *)

validate_token_format_nolen(token) == token # <<>>

validate_token_format(token) ==
    IF token = <<>> \/ Len(token) < MinTokenLen THEN FALSE ELSE TRUE

----------------------------------------------------------------------------
(* Read paths of the credential store *)

get_refresh_token(e, f) ==
    IF Truthy(e) THEN Ok(strip(e.val))
    ELSE IF f.some /\ strip(f.val) # <<>> THEN Ok(strip(f.val))
    ELSE Raised

get_saved_token(e, f) ==
    IF f.some THEN Ok(strip(f.val))
    ELSE IF Truthy(e) THEN Ok(e.val)
    ELSE Raised

(* setup_token_file: the file is replaced by the stripped token *)
setup_token_file(token) == Some(strip(token))

----------------------------------------------------------------------------
(* Values the environment supplies *)

(* PIXIV_REFRESH_TOKEN: unset, blank, too short, valid, and long enough only
   before stripping *)
EnvValues ==
    {NoVal, Some(Fill(" ", 2)), Some(Fill("e", 3)), Some(Fill("e", MinTokenLen)),
     Some(<<" ">> \o Fill("e", MinTokenLen - 1))}

(* ~/.pixiv/refresh_token: missing, blank, long enough only before stripping,
   valid with trailing white space *)
FileValues ==
    {NoVal, Some(<<" ">>), Some(<<" ">> \o Fill("f", MinTokenLen - 1)),
     Some(Fill("f", MinTokenLen) \o <<" ">>)}

(* what the operator pastes at the manual-input prompt (before .strip()) *)
ManualInputs == {Fill("m", MinTokenLen + 1) \o <<" ">>, Fill("m", MinTokenLen - 1)}

(* the i-th refresh token the token endpoint issues: all distinct *)
IssuedToken(i) == Fill("n", MinTokenLen + i)

(* arguments the pure format check is applied to *)
Chars == {"a", "-", " "}
TokenInputs ==
    {Fill(c, n) : c \in Chars, n \in 0..MaxTokenLen}
      \cup {<<c>> \o Fill(d, n) : c \in Chars, d \in Chars, n \in 0..(MaxTokenLen - 1)}

(* answers to a y/n prompt, after .lower().strip() *)
Answers == {"y", "yes", "", "n"}
Yes == {"y", "yes"}
(* ensure_refresh_token also takes the empty answer as yes *)
AutoSetupYes == {"y", "yes", ""}

(* token endpoint outcomes: request failed (RequestException / non-2xx), JSON
   without refresh_token, JSON with an empty refresh_token, JSON with a token *)
Responses == {"error", "norefresh", "emptyrefresh", "ok"}

(* authorization codes the login redirect may carry *)
Codes == {<<"c", "1">>, <<"c", "2">>}

(* requests the CDP observer may see: the redirect with a code, a request with
   the pixiv://account/login prefix but no code parameter, any other request *)
RequestKinds == {"code", "nocode", "other"}

----------------------------------------------------------------------------
(* The browser authorization session *)

NoSess ==
    [driver |-> "none", browser |-> "none", context |-> "none", page |-> "none",
     observer |-> FALSE, captured |-> NoVal, events |-> 0, cleanups |-> 0,
     headless |-> TRUE]

NoArgs == [via |-> "none", haveCreds |-> FALSE, headless |-> TRUE]

AllClosed(s) == s.page = "closed" /\ s.context = "closed" /\ s.browser = "closed"

(* handle.close(): an open handle becomes closed; closing a closed handle leaves
   it closed and, depending on the library, may raise (r) *)
close(h, r) == [st |-> "closed", exc |-> (h = "closed" /\ r)]

(* cleanup_and_return without the try/except around each close *)
cleanup_and_return_unguarded(s, r) ==
    LET p == close(s.page, r[1])
        c == close(s.context, r[2])
        b == close(s.browser, r[3])
    IN  IF p.exc THEN [sess |-> [s EXCEPT !.cleanups = @ + 1], escaped |-> TRUE]
        ELSE IF c.exc
        THEN [sess |-> [s EXCEPT !.page = p.st, !.cleanups = @ + 1], escaped |-> TRUE]
        ELSE [sess |-> [s EXCEPT !.page = p.st, !.context = c.st, !.browser = b.st,
                                 !.cleanups = @ + 1],
              escaped |-> b.exc]

(* a return that leaves the teardown out *)
cleanup_and_return_skipped(s, r) == [sess |-> s, escaped |-> FALSE]

(* cleanup_and_return: page, context, browser are closed in this order, each
   inside its own try/except that swallows whatever the close raises *)
cleanup_and_return(s, r) ==
    LET p == close(s.page, r[1])
        c == close(s.context, r[2])
        b == close(s.browser, r[3])
    IN  [sess |-> [s EXCEPT !.page = p.st, !.context = c.st, !.browser = b.st,
                            !.cleanups = @ + 1],
         escaped |-> FALSE]

CloseRaises == [1..3 -> BOOLEAN]

(* on_request_will_be_sent: a request with the prefix and a code stores the code
   and closes the page; any other request changes nothing *)
on_request_will_be_sent(s, kind, c) ==
    IF kind = "code"
    THEN [s EXCEPT !.captured = Some(c), !.page = "closed", !.events = @ + 1]
    ELSE [s EXCEPT !.events = @ + 1]

(* leaving `with sync_playwright()`: the driver is stopped; no handle is closed
   by fetch_code itself on this path *)
with_exit(s) == [s EXCEPT !.driver = "stopped"]

----------------------------------------------------------------------------
(* Pieces of the callers *)

(* ensure_refresh_token without its look at the token file *)
ensure_cached_envonly(e, f) == Truthy(e)

(* ensure_refresh_token's early returns: a truthy environment value, or a token
   file whose stripped content is non-empty and passes the format check *)
ensure_cached(e, f) ==
    \/ Truthy(e)
    \/ (f.some /\ strip(f.val) # <<>> /\ validate_token_format(strip(f.val)))

(* the fatal exit without the remediation text *)
ensure_fatal_silent(l) == l \o <<"sys_exit">>

(* ensure_refresh_token's last step: print the manual-configuration text to
   stderr, then sys.exit(1) *)
ensure_fatal(l) == l \o <<"remediation", "sys_exit">>

(* a server entry point that serves however the startup check ended *)
server_main_outcome_always(entry, how) == "serving"

(* a server entry point that treats every way out of the startup check alike *)
server_main_outcome_lenient(entry, how) ==
    IF how = "return" THEN "serving" ELSE "exit0"

(* How the server entry points turn the way ensure_refresh_token ended into the
   run's outcome.  stdio (server.main under asyncio.run in cli_main): a normal
   return starts serving; SystemExit(1) is no Exception, passes both handlers
   and ends the process with status 1; KeyboardInterrupt is caught and logged,
   main returns and the process ends with status 0 without serving; any other
   exception ends in sys.exit(1).  http (lifespan): the application is started
   only by the yield after a normal return; everything else leaves the lifespan
   before the yield, and a KeyboardInterrupt is caught by the http main. *)
server_main_outcome(entry, how) ==
    CASE how = "return" -> "serving"
      [] how = "KeyboardInterrupt" -> "exit0"
      [] OTHER -> "exit1"

(* token_manager.main: sys.exit(0 if success else 1) *)
token_manager_exit(success) == IF success THEN "exit0" ELSE "exit1"

(* an exchange that posts the code again after a failed request *)
exchange_token_post_retry(resp) ==
    IF resp = "error" THEN <<"post_code", resp, "post_code", resp>>
    ELSE <<"post_code", resp>>

(* exchange_token: one requests.post with the code, and what came back *)
exchange_token_post(resp) == <<"post_code", resp>>

(* get_tokens taking every decoded response as a success *)
get_tokens_result_anyjson(resp, i) ==
    IF resp # "error" THEN Some(IssuedToken(i)) ELSE NoVal

(* the i-th access token the token endpoint issues *)
AccessToken(i) == Fill("a", MinTokenLen + i)

(* the JSON of a successful token response *)
token_response(i) == [access_token |-> AccessToken(i), refresh_token |-> IssuedToken(i)]

(* a caller that keeps the access token *)
response_access_token(r) == r.access_token

(* token_info.get("refresh_token") / result.get("refresh_token"): the one field
   of the response that is handed on to the callers *)
response_refresh_token(r) == r.refresh_token

(* exchange_token + get_tokens: the refresh token of the response, or no token
   when the request failed or the response carries no (or an empty) refresh_token *)
get_tokens_result(resp, i) ==
    IF resp = "ok" THEN Some(response_refresh_token(token_response(i))) ELSE NoVal

(* The token endpoint issues a new token only for a refresh token that is well
   formed and has not been replaced; for anything else raise_for_status raises *)
endpoint_accepts(token) == Len(token) >= MinTokenLen /\ token \notin dead

(* what requests.post + raise_for_status + json() give for the refresh grant *)
endpoint_response(token, resp) == IF endpoint_accepts(token) THEN resp ELSE "error"

(* refresh_existing_token: the new refresh token, or None *)
refresh_existing_token(token, resp, i) ==
    IF endpoint_response(token, resp) = "ok"
    THEN Some(response_refresh_token(token_response(i))) ELSE NoVal

ServerEntries == {"stdio", "http"}

(* The acquisition flow returns token option t to the entry point that started
   it; l is the log so far.  ensure_refresh_token (server entries) and
   cmd_playwright, cmd_headless_login, cmd_login write the token file before
   reporting success; cmd_auto reports success without writing. *)
Finish(t, l) ==
    /\ pc' = "idle"
    /\ newTok' = t
    /\ CASE cmd \in ServerEntries ->
              IF Truthy(t)
              THEN /\ file' = setup_token_file(t.val)
                   /\ log' = l \o <<"write">>
                   /\ outcome' = server_main_outcome(cmd, "return")
              ELSE /\ file' = file
                   /\ log' = ensure_fatal(l)
                   /\ outcome' = server_main_outcome(cmd, "SystemExit")
         [] cmd = "auto" ->
              /\ file' = file
              /\ log' = l
              /\ outcome' = token_manager_exit(Truthy(t))
         [] OTHER ->
              IF Truthy(t)
              THEN /\ file' = setup_token_file(t.val)
                   /\ log' = l \o <<"write">>
                   /\ outcome' = token_manager_exit(TRUE)
              ELSE /\ file' = file
                   /\ log' = l
                   /\ outcome' = token_manager_exit(FALSE)

(* permission bits as three octal digits; no file: no bits *)
NoMode == <<>>
Mode600 == <<6, 0, 0>>

(* an AppPixivAPI object: not created, or created with the refresh token it
   was given and whether its auth() succeeded *)
NoClient == [made |-> FALSE, authed |-> FALSE, token |-> <<>>]
Client(ok, t) == [made |-> TRUE, authed |-> ok, token |-> t]

(* no dispatch yet *)
NoResult == [kind |-> "none", keys |-> {}, tool |-> "", client |-> NoClient]

(* no HTTP response yet *)
NoReply == [status |-> 0, body |-> "none", data |-> "none"]

(* request slots of the http server's event loop *)
TaskIds == 1..MaxTasks

NoTask == [phase |-> "free", endpoint |-> "none", name |-> "", client |-> NoClient,
           reply |-> NoReply]
NoTasks == [t \in TaskIds |-> NoTask]

(* a new process run starts: the module-level state is the freshly imported
   one; the server entry points call ensure_refresh_token first *)
RunStart(c) ==
    /\ pc = "idle"
    /\ runs < MaxRuns
    /\ cmd' = c
    /\ runs' = runs + 1
    /\ file0' = file
    /\ readBy' = "none"
    /\ readVal' = Raised
    /\ api' = NoClient
    /\ bypass_api' = NoClient
    /\ result' = NoResult
    /\ ensureCalls' = IF c \in ServerEntries THEN 1 ELSE 0
    /\ tasks' = NoTasks
    /\ authCalls' = 0
    /\ UNCHANGED <<env, vtIn, vtOut, pkceVars, permVars>>

----------------------------------------------------------------------------
Init ==
    /\ env \in EnvValues
    /\ file \in FileValues
    /\ credsSaved \in BOOLEAN
    /\ pwAvail \in BOOLEAN
    /\ gpptAvail \in BOOLEAN
    /\ cmd = "none"
    /\ pc = "idle"
    /\ runs = 0
    /\ log = <<>>
    /\ outcome = "none"
    /\ declined = FALSE
    /\ args = NoArgs
    /\ sess = NoSess
    /\ newTok = NoVal
    /\ file0 = file
    /\ issued = 0
    /\ dead = {}
    /\ readBy = "none"
    /\ readVal = Raised
    /\ vtIn = <<>>
    /\ vtOut = "none"
    /\ drawn = {}
    /\ attempts = <<>>
    /\ api = NoClient
    /\ bypass_api = NoClient
    /\ result = NoResult
    /\ ensureCalls = 0
    /\ umask = <<0, 2, 2>>
    /\ fileMode = IF file.some THEN Mode600 ELSE NoMode
    /\ credsMode = IF credsSaved THEN Mode600 ELSE NoMode
    /\ permPc = "idle"
    /\ owned = {}
    /\ tasks = NoTasks
    /\ authCalls = 0

----------------------------------------------------------------------------
(* Entry points *)

(* server.main / http lifespan: ensure_refresh_token up to its prompt *)
server_main(entry, answer) ==
    /\ RunStart(entry)
    /\ UNCHANGED <<file, credsSaved, pwAvail, gpptAvail, issued, dead>>
    /\ args' = NoArgs
    /\ sess' = NoSess
    /\ newTok' = NoVal
    /\ IF ensure_cached(env, file)
       THEN /\ pc' = "idle"
            /\ log' = <<>>
            /\ declined' = FALSE
            /\ outcome' = server_main_outcome(entry, "return")
       ELSE IF answer \in AutoSetupYes
       THEN /\ pc' = "auto_setup_token"
            /\ log' = <<"prompt">>
            /\ declined' = FALSE
            /\ outcome' = "none"
       ELSE /\ pc' = "idle"
            /\ log' = ensure_fatal(<<"prompt">>)
            /\ declined' = TRUE
            /\ outcome' = server_main_outcome(entry, "SystemExit")

(* token_manager auto: install playwright when no tool is there, then
   auto_setup_token *)
cmd_auto(answer, installed) ==
    /\ RunStart("auto")
    /\ UNCHANGED <<file, credsSaved, gpptAvail, issued, dead>>
    /\ args' = NoArgs
    /\ sess' = NoSess
    /\ newTok' = NoVal
    /\ declined' = FALSE
    /\ IF ~pwAvail /\ ~gpptAvail
       THEN /\ log' = <<"prompt">>
            /\ IF answer \in Yes /\ installed
               THEN pwAvail' = TRUE /\ pc' = "auto_setup_token" /\ outcome' = "none"
               ELSE pwAvail' = pwAvail /\ pc' = "idle"
                    /\ outcome' = token_manager_exit(FALSE)
       ELSE /\ log' = <<>>
            /\ pwAvail' = pwAvail
            /\ pc' = "auto_setup_token"
            /\ outcome' = "none"

(* how username and password reach a command: on the command line, typed
   at the two prompts, or left empty at the prompts *)
Accounts == {"args", "typed", "empty"}
AccountLog(given) == IF given = "args" THEN <<>> ELSE <<"prompt", "prompt">>

(* token_manager playwright [-u -p] [-i] *)
cmd_playwright(answer, installed, given, interactive) ==
    /\ RunStart("playwright")
    /\ UNCHANGED <<file, credsSaved, gpptAvail, issued, dead>>
    /\ sess' = NoSess
    /\ newTok' = NoVal
    /\ declined' = FALSE
    /\ LET l1 == IF pwAvail THEN <<>> ELSE <<"prompt">>
           ok == pwAvail \/ (answer \in Yes /\ installed)
       IN  IF ~ok
           THEN /\ pwAvail' = pwAvail /\ log' = l1 /\ pc' = "idle" /\ args' = NoArgs
                /\ outcome' = token_manager_exit(FALSE)
           ELSE /\ pwAvail' = TRUE
                /\ log' = l1 \o AccountLog(given)
                /\ IF given # "empty"
                   THEN /\ pc' = "get_token_with_playwright"
                        /\ args' = [via |-> "cli", haveCreds |-> TRUE, headless |-> ~interactive]
                        /\ outcome' = "none"
                   ELSE /\ pc' = "idle"
                        /\ args' = NoArgs
                        /\ outcome' = token_manager_exit(FALSE)

(* token_manager headless [-u -p]: gppt with the given account *)
cmd_headless_login(given) ==
    /\ RunStart("headless")
    /\ UNCHANGED <<file, credsSaved, pwAvail, gpptAvail, issued, dead>>
    /\ sess' = NoSess
    /\ newTok' = NoVal
    /\ declined' = FALSE
    /\ IF ~gpptAvail
       THEN log' = <<>> /\ pc' = "idle" /\ args' = NoArgs
            /\ outcome' = token_manager_exit(FALSE)
       ELSE /\ log' = AccountLog(given)
            /\ IF given # "empty"
               THEN pc' = "get_token_with_gppt" /\ outcome' = "none"
                    /\ args' = [via |-> "cli", haveCreds |-> TRUE, headless |-> TRUE]
               ELSE pc' = "idle" /\ outcome' = token_manager_exit(FALSE)
                    /\ args' = NoArgs

(* token_manager login: gppt's interactive login *)
cmd_login ==
    /\ RunStart("login")
    /\ UNCHANGED <<file, credsSaved, pwAvail, gpptAvail, issued, dead>>
    /\ sess' = NoSess
    /\ newTok' = NoVal
    /\ declined' = FALSE
    /\ log' = <<>>
    /\ args' = NoArgs
    /\ IF gpptAvail
       THEN pc' = "gppt_login" /\ outcome' = "none"
       ELSE pc' = "idle" /\ outcome' = token_manager_exit(FALSE)

(* a refresh command that writes the token file whatever the refresh gave *)
cmd_refresh_truncating(resp) ==
    /\ RunStart("refresh")
    /\ UNCHANGED <<credsSaved, pwAvail, gpptAvail, issued, dead>>
    /\ args' = NoArgs
    /\ sess' = NoSess
    /\ declined' = FALSE
    /\ pc' = "idle"
    /\ newTok' = NoVal
    /\ log' = <<"post_refresh", "error">>
    /\ file' = setup_token_file(<<>>)
    /\ outcome' = token_manager_exit(FALSE)

(* token_manager refresh *)
cmd_refresh(resp) ==
    /\ RunStart("refresh")
    /\ UNCHANGED <<credsSaved, pwAvail, gpptAvail>>
    /\ args' = NoArgs
    /\ sess' = NoSess
    /\ declined' = FALSE
    /\ pc' = "idle"
    /\ LET current == get_refresh_token(env, file)
           new == IF current.raised THEN NoVal
                  ELSE refresh_existing_token(current.val, resp, issued + 1)
       IN  /\ newTok' = new
           /\ log' = IF current.raised THEN <<>>
                     ELSE <<"post_refresh", endpoint_response(current.val, resp)>>
                            \o (IF Truthy(new) THEN <<"write">> ELSE <<>>)
           /\ IF Truthy(new)
              THEN /\ file' = setup_token_file(new.val)
                   /\ issued' = issued + 1
                   /\ dead' = dead \cup {current.val}
              ELSE UNCHANGED <<file, issued, dead>>
           /\ outcome' = token_manager_exit(Truthy(new))

----------------------------------------------------------------------------
(* auto_setup_token *)

(* first part: with neither tool installed, offer to install one *)
auto_setup_token_tools(choice, installed) ==
    /\ pc = "auto_setup_token"
    /\ UNCHANGED <<env, credsSaved, cmd, runs, declined, args, sess, file0, issued,
                   dead, readBy, readVal, vtIn, vtOut, auxVars>>
    /\ IF pwAvail \/ gpptAvail
       THEN /\ pc' = "auto_setup_menu"
            /\ UNCHANGED <<file, pwAvail, gpptAvail, log, outcome, newTok>>
       ELSE IF choice \in {1, 2} /\ installed
       THEN /\ pc' = "auto_setup_menu"
            /\ pwAvail' = (choice = 1)
            /\ gpptAvail' = (choice = 2)
            /\ log' = log \o <<"prompt">>
            /\ UNCHANGED <<file, outcome, newTok>>
       ELSE /\ Finish(NoVal, log \o <<"prompt">>)
            /\ UNCHANGED <<pwAvail, gpptAvail>>

(* number of lines of the method menu *)
MenuSize == (IF pwAvail THEN 1 ELSE 0) + (IF gpptAvail THEN 1 ELSE 0) + 2

(* the lines of the method menu as printed: the number at the head of the line
   and the method the line names.  The first two numbers are literals of the
   format strings, the last two are computed from the length of the list. *)
methods ==
    LET tools == (IF pwAvail THEN <<[number |-> 1, method |-> "playwright"]>> ELSE <<>>)
                 \o (IF gpptAvail THEN <<[number |-> 2, method |-> "gppt"]>> ELSE <<>>)
    IN  tools \o <<[number |-> Len(tools) + 1, method |-> "interactive"],
                   [number |-> Len(tools) + 2, method |-> "manual"]>>

(* an auto_setup_token whose saved-account path opens a visible browser
   whatever the operator answered *)
auto_setup_choice_visible(useSaved, choice) ==
    [to |-> "get_token_with_playwright", via |-> "saved", haveCreds |-> TRUE,
     headless |-> FALSE, prompts |-> 1]

(* What auto_setup_token does for the operator's answers: useSaved answers the
   saved-account question (asked only when credentials.json loads), choice is
   the number typed at the method menu.  The result names the next step, the
   branch that was taken (via) and the arguments of the call it makes. *)
auto_setup_choice(useSaved, choice) ==
    IF credsSaved /\ useSaved \in Yes
    THEN IF pwAvail
         THEN [to |-> "get_token_with_playwright", via |-> "saved", haveCreds |-> TRUE,
               headless |-> TRUE, prompts |-> 1]
         ELSE [to |-> "get_token_with_gppt", via |-> "saved", haveCreds |-> TRUE,
               headless |-> TRUE, prompts |-> 1]
    ELSE LET n == (IF credsSaved THEN 1 ELSE 0) + 1
         IN  IF choice = 1 /\ pwAvail
             THEN [to |-> "get_token_with_playwright", via |-> "playwright",
                   haveCreds |-> FALSE, headless |-> TRUE, prompts |-> n]
             ELSE IF (choice = 1 /\ ~pwAvail /\ gpptAvail) \/ (choice = 2 /\ gpptAvail)
             THEN [to |-> "get_token_with_gppt", via |-> "gppt", haveCreds |-> FALSE,
                   headless |-> TRUE, prompts |-> n]
             ELSE IF choice = MenuSize - 1
             THEN IF pwAvail
                  THEN [to |-> "get_token_with_playwright", via |-> "interactive",
                        haveCreds |-> FALSE, headless |-> FALSE, prompts |-> n]
                  ELSE [to |-> "gppt_login", via |-> "interactive", haveCreds |-> FALSE,
                        headless |-> FALSE, prompts |-> n]
             ELSE IF choice = MenuSize
             THEN [to |-> "manual", via |-> "manual", haveCreds |-> FALSE,
                   headless |-> TRUE, prompts |-> n + 1]
             ELSE [to |-> "invalid", via |-> "invalid", haveCreds |-> FALSE,
                   headless |-> TRUE, prompts |-> n]

MenuChoices == 1..5

(* second part: saved account, method menu, manual input *)
auto_setup_token_menu(useSaved, choice, typed) ==
    /\ pc = "auto_setup_menu"
    /\ UNCHANGED <<env, credsSaved, pwAvail, gpptAvail, cmd, runs, declined, sess,
                   file0, issued, dead, readBy, readVal, vtIn, vtOut, auxVars>>
    /\ LET d == auto_setup_choice(useSaved, choice)
           l == log \o [i \in 1..d.prompts |-> "prompt"]
           token == strip(typed)
       IN  CASE d.to = "manual" ->
                  /\ Finish(IF validate_token_format(token) THEN Some(token) ELSE NoVal, l)
                  /\ args' = args
             [] d.to = "invalid" ->
                  /\ Finish(NoVal, l)
                  /\ args' = args
             [] OTHER ->
                  /\ pc' = d.to
                  /\ args' = [via |-> d.via, haveCreds |-> d.haveCreds,
                              headless |-> d.headless]
                  /\ log' = l
                  /\ UNCHANGED <<file, outcome, newTok>>

----------------------------------------------------------------------------
(* gppt, the second automation tool: an external library, seen only through
   what its login returns *)

get_token_with_gppt(given, got, save) ==
    /\ pc = "get_token_with_gppt"
    /\ UNCHANGED <<env, pwAvail, gpptAvail, cmd, runs, declined, args, sess, file0,
                   dead, readBy, readVal, vtIn, vtOut, auxVars>>
    /\ LET l1 == IF args.haveCreds THEN log ELSE log \o <<"prompt", "prompt">>
       IN  IF ~args.haveCreds /\ ~given
           THEN Finish(NoVal, l1) /\ UNCHANGED <<credsSaved, issued>>
           ELSE IF got
           THEN /\ Finish(Some(IssuedToken(issued + 1)), l1 \o <<"launch", "prompt">>)
                /\ issued' = issued + 1
                /\ credsSaved' = (credsSaved \/ save \in Yes)
           ELSE /\ Finish(NoVal, l1 \o <<"launch">>)
                /\ UNCHANGED <<credsSaved, issued>>

(* GetPixivToken(headless=False).login() from cmd_login and from the
   interactive menu entry when only gppt is installed *)
gppt_login(got) ==
    /\ pc = "gppt_login"
    /\ UNCHANGED <<env, credsSaved, pwAvail, gpptAvail, cmd, runs, declined, args,
                   sess, file0, dead, readBy, readVal, vtIn, vtOut, auxVars>>
    /\ IF got
       THEN Finish(Some(IssuedToken(issued + 1)), log \o <<"launch">>)
            /\ issued' = issued + 1
       ELSE Finish(NoVal, log \o <<"launch">>) /\ issued' = issued

----------------------------------------------------------------------------
(* get_token_with_playwright -> PixivPlaywrightTokenFetcher.get_tokens *)

(* asks for the account when none was passed; an empty answer returns None *)
get_token_with_playwright(given) ==
    /\ pc = "get_token_with_playwright"
    /\ UNCHANGED <<env, credsSaved, pwAvail, gpptAvail, cmd, runs, declined, args,
                   file0, issued, dead, readBy, readVal, vtIn, vtOut, auxVars>>
    /\ LET l1 == IF args.haveCreds THEN log ELSE log \o <<"prompt", "prompt">>
       IN  IF ~args.haveCreds /\ ~given
           THEN Finish(NoVal, l1) /\ sess' = sess
           ELSE /\ pc' = "fetch_code"
                /\ log' = l1
                /\ sess' = [NoSess EXCEPT !.headless = args.headless]
                /\ UNCHANGED <<file, outcome, newTok>>

(* fetch_code up to the registration of the request observer: launch, new
   context, new page, CDP session, page.goto.  A failing goto raises out of
   fetch_code past cleanup_and_return; get_token_with_playwright turns the
   exception into None. *)
fetch_code_open(navigated) ==
    /\ pc = "fetch_code"
    /\ UNCHANGED <<env, credsSaved, pwAvail, gpptAvail, cmd, runs, declined, args,
                   file0, issued, dead, readBy, readVal, vtIn, vtOut, auxVars>>
    /\ LET opened == [sess EXCEPT !.driver = "running", !.browser = "open",
                                  !.context = "open", !.page = "open"]
       IN  IF navigated
           THEN /\ sess' = [opened EXCEPT !.observer = TRUE]
                /\ pc' = "login_username"
                /\ log' = log \o <<"launch">>
                /\ UNCHANGED <<file, outcome, newTok>>
           ELSE /\ sess' = with_exit(opened)
                /\ Finish(NoVal, log \o <<"launch", "goto_failed">>)

SessionPcs == {"login_username", "login_password", "wait_close"}

(* the CDP observer fires while the main flow is inside a Playwright call.
   The handler's own page.close() is such a call: requests the browser had
   already reported are delivered to the handler while the close completes,
   so a request may be observed after an earlier one matched. *)
observe(kind, c) ==
    /\ pc \in SessionPcs
    /\ sess.observer
    /\ sess.events < MaxEvents
    /\ sess' = on_request_will_be_sent(sess, kind, c)
    /\ UNCHANGED <<env, file, credsSaved, pwAvail, gpptAvail, cmd, pc, runs, log,
                   outcome, declined, args, newTok, file0, issued, dead, readBy,
                   readVal, vtIn, vtOut, auxVars>>

(* an auto-login that goes on to the password when the user name field did
   not appear *)
perform_auto_login_username_lenient(appears) ==
    /\ pc = "login_username"
    /\ UNCHANGED <<env, credsSaved, pwAvail, gpptAvail, cmd, runs, declined, args,
                   file0, issued, dead, readBy, readVal, vtIn, vtOut, auxVars>>
    /\ pc' = "login_password"
    /\ log' = log \o (IF appears /\ sess.page = "open" THEN <<"username">>
                      ELSE <<"login_failed">>)
    /\ UNCHANGED <<file, outcome, newTok, sess>>

(* perform_auto_login, user name: wait_for_selector (15 s), slow_type, Enter.
   A field that does not appear, or a page that is already closed, raises. *)
perform_auto_login_username(appears) ==
    /\ pc = "login_username"
    /\ UNCHANGED <<env, credsSaved, pwAvail, gpptAvail, cmd, runs, declined, args,
                   file0, issued, dead, readBy, readVal, vtIn, vtOut, auxVars>>
    /\ IF appears /\ sess.page = "open"
       THEN /\ pc' = "login_password"
            /\ log' = log \o <<"username">>
            /\ UNCHANGED <<file, outcome, newTok, sess>>
       ELSE /\ sess' = with_exit(sess)
            /\ Finish(NoVal, log \o <<"login_failed">>)

(* perform_auto_login, password: the same for the password field *)
perform_auto_login_password(appears) ==
    /\ pc = "login_password"
    /\ UNCHANGED <<env, credsSaved, pwAvail, gpptAvail, cmd, runs, declined, args,
                   file0, issued, dead, readBy, readVal, vtIn, vtOut, auxVars>>
    /\ IF appears /\ sess.page = "open"
       THEN /\ pc' = "wait_close"
            /\ log' = log \o <<"password">>
            /\ UNCHANGED <<file, outcome, newTok, sess>>
       ELSE /\ sess' = with_exit(sess)
            /\ Finish(NoVal, log \o <<"login_failed">>)

(* page.wait_for_event("close", 100 s) ends, by the close or by the caught
   TimeoutError; cleanup_and_return; get_tokens gives up without a code *)
fetch_code_return(r) ==
    /\ pc = "wait_close"
    /\ UNCHANGED <<env, credsSaved, pwAvail, gpptAvail, cmd, runs, declined, args,
                   file0, issued, dead, readBy, readVal, vtIn, vtOut, auxVars>>
    /\ LET res == cleanup_and_return(sess, r)
           l == (IF sess.page = "open" THEN log \o <<"timeout">> ELSE log)
                  \o <<"cleanup">>
       IN  /\ sess' = with_exit(res.sess)
           /\ IF res.escaped
              THEN Finish(NoVal, l \o <<"cleanup_raised">>)
              ELSE IF ~Truthy(sess.captured)
              THEN Finish(NoVal, l)
              ELSE /\ pc' = "exchange_token"
                   /\ log' = l
                   /\ UNCHANGED <<file, outcome, newTok>>

(* exchange_token and the rest of get_tokens and get_token_with_playwright:
   one POST with the code; on a token, the question whether to save the account *)
exchange_token(resp, save) ==
    /\ pc = "exchange_token"
    /\ UNCHANGED <<env, pwAvail, gpptAvail, cmd, runs, declined, args, sess, file0,
                   dead, readBy, readVal, vtIn, vtOut, auxVars>>
    /\ LET t == get_tokens_result(resp, issued + 1)
       IN  IF Truthy(t)
           THEN /\ Finish(t, log \o exchange_token_post(resp) \o <<"prompt">>)
                /\ issued' = issued + 1
                /\ credsSaved' = (credsSaved \/ save \in Yes)
           ELSE /\ Finish(NoVal, log \o exchange_token_post(resp))
                /\ UNCHANGED <<credsSaved, issued>>

(* the operator interrupts while the session is open: KeyboardInterrupt is no
   Exception, so it leaves fetch_code, get_token_with_playwright and the caller
   up to the entry point's handler *)
keyboard_interrupt ==
    /\ pc \in SessionPcs
    /\ sess' = with_exit(sess)
    /\ pc' = "idle"
    /\ newTok' = NoVal
    /\ log' = log \o <<"KeyboardInterrupt">>
    /\ outcome' = IF cmd \in ServerEntries
                  THEN server_main_outcome(cmd, "KeyboardInterrupt")
                  ELSE token_manager_exit(FALSE)
    /\ UNCHANGED <<env, file, credsSaved, pwAvail, gpptAvail, cmd, runs, declined,
                   args, file0, issued, dead, readBy, readVal, vtIn, vtOut, auxVars>>

----------------------------------------------------------------------------
(* The read paths applied to the store, between runs *)

read_refresh_token ==
    /\ pc = "idle"
    /\ readBy' = "get_refresh_token"
    /\ readVal' = get_refresh_token(env, file)
    /\ UNCHANGED <<storeVars, runVars, vtVars, auxVars>>

read_saved_token ==
    /\ pc = "idle"
    /\ readBy' = "get_saved_token"
    /\ readVal' = get_saved_token(env, file)
    /\ UNCHANGED <<storeVars, runVars, vtVars, auxVars>>

----------------------------------------------------------------------------
Next ==
    \/ \E entry \in ServerEntries, answer \in Answers : server_main(entry, answer)
    \/ \E answer \in Answers, installed \in BOOLEAN : cmd_auto(answer, installed)
    \/ \E answer \in Answers, installed \in BOOLEAN, given \in Accounts,
          interactive \in BOOLEAN : cmd_playwright(answer, installed, given, interactive)
    \/ \E given \in Accounts : cmd_headless_login(given)
    \/ cmd_login
    \/ \E resp \in Responses : cmd_refresh(resp)
    \/ \E choice \in 1..3, installed \in BOOLEAN : auto_setup_token_tools(choice, installed)
    \/ \E useSaved \in Answers, choice \in MenuChoices, typed \in ManualInputs :
          auto_setup_token_menu(useSaved, choice, typed)
    \/ \E given \in BOOLEAN, got \in BOOLEAN, save \in Answers :
          get_token_with_gppt(given, got, save)
    \/ \E got \in BOOLEAN : gppt_login(got)
    \/ \E given \in BOOLEAN : get_token_with_playwright(given)
    \/ \E navigated \in BOOLEAN : fetch_code_open(navigated)
    \/ \E kind \in RequestKinds, c \in Codes : observe(kind, c)
    \/ \E appears \in BOOLEAN : perform_auto_login_username(appears)
    \/ \E appears \in BOOLEAN : perform_auto_login_password(appears)
    \/ \E r \in CloseRaises : fetch_code_return(r)
    \/ \E resp \in Responses, save \in Answers : exchange_token(resp, save)
    \/ keyboard_interrupt

Spec == Init /\ [][Next]_vars

(* The credential store alone: the two read paths and the refresh command *)
NextStore ==
    \/ read_refresh_token
    \/ read_saved_token
    \/ \E resp \in Responses : cmd_refresh(resp)

SpecStore == Init /\ [][NextStore]_vars

----------------------------------------------------------------------------
(* The format check alone, applied to every argument of TokenInputs *)

InitFormat ==
    /\ env = NoVal
    /\ file = NoVal
    /\ credsSaved = FALSE
    /\ pwAvail = FALSE
    /\ gpptAvail = FALSE
    /\ cmd = "none"
    /\ pc = "idle"
    /\ runs = 0
    /\ log = <<>>
    /\ outcome = "none"
    /\ declined = FALSE
    /\ args = NoArgs
    /\ sess = NoSess
    /\ newTok = NoVal
    /\ file0 = NoVal
    /\ issued = 0
    /\ dead = {}
    /\ readBy = "none"
    /\ readVal = Raised
    /\ vtIn = <<>>
    /\ vtOut = "none"
    /\ drawn = {}
    /\ attempts = <<>>
    /\ api = NoClient
    /\ bypass_api = NoClient
    /\ result = NoResult
    /\ ensureCalls = 0
    /\ umask = <<0, 2, 2>>
    /\ fileMode = IF file.some THEN Mode600 ELSE NoMode
    /\ credsMode = IF credsSaved THEN Mode600 ELSE NoMode
    /\ permPc = "idle"
    /\ owned = {}
    /\ tasks = NoTasks
    /\ authCalls = 0

validate_call(token) ==
    /\ vtIn' = token
    /\ vtOut' = IF validate_token_format(token) THEN "True" ELSE "False"
    /\ UNCHANGED <<storeVars, runVars, readVars, auxVars>>

NextFormat == \E token \in TokenInputs : validate_call(token)

SpecFormat == InitFormat /\ [][NextFormat]_vars

----------------------------------------------------------------------------
(* PKCE: the verifier and challenge of PixivPlaywrightTokenFetcher.  Bytes are
   numbers 0..255, strings are sequences of characters. *)

MaxAttempts == 3    \* fetcher objects created per behaviour
DigestLen == 2      \* bytes of the model's digest (SHA-256 has 32 = 2 mod 3)

(* the URL-safe base64 alphabet *)
B64 ==
    <<"A", "B", "C", "D", "E", "F", "G", "H", "I", "J", "K", "L", "M", "N", "O", "P",
      "Q", "R", "S", "T", "U", "V", "W", "X", "Y", "Z", "a", "b", "c", "d", "e", "f",
      "g", "h", "i", "j", "k", "l", "m", "n", "o", "p", "q", "r", "s", "t", "u", "v",
      "w", "x", "y", "z", "0", "1", "2", "3", "4", "5", "6", "7", "8", "9", "-", "_">>

(* base64.urlsafe_b64encode: groups of three bytes give four characters, the
   last group is filled up with "=" *)
RECURSIVE urlsafe_b64encode(_)
urlsafe_b64encode(bs) ==
    IF bs = <<>> THEN <<>>
    ELSE LET n == Len(bs)
             w == bs[1] * 65536 + (IF n >= 2 THEN bs[2] ELSE 0) * 256
                    + (IF n >= 3 THEN bs[3] ELSE 0)
             c1 == B64[(w \div 262144) + 1]
             c2 == B64[((w \div 4096) % 64) + 1]
             c3 == IF n >= 2 THEN B64[((w \div 64) % 64) + 1] ELSE "="
             c4 == IF n >= 3 THEN B64[(w % 64) + 1] ELSE "="
         IN  <<c1, c2, c3, c4>>
               \o (IF n > 3 THEN urlsafe_b64encode(SubSeq(bs, 4, n)) ELSE <<>>)

(* bytes.rstrip(b'=') *)
RECURSIVE rstrip_pad(_)
rstrip_pad(s) ==
    IF s # <<>> /\ s[Len(s)] = "=" THEN rstrip_pad(SubSeq(s, 1, Len(s) - 1)) ELSE s

(* position of a character in the alphabet, its byte value in the model *)
Ord(c) == CHOOSE k \in 1..64 : B64[k] = c

(* hashlib.sha256(...).digest(): a fixed number of bytes that depend on every
   character of the input and on its position; the model's mixing function
   stands for SHA-256 *)
RECURSIVE mix(_, _, _)
mix(v, i, j) ==
    IF j > Len(v) THEN 0 ELSE (Ord(v[j]) * (i + 2 * j) + mix(v, i, j + 1)) % 256

sha256(v) == [i \in 1..DigestLen |-> (mix(v, i, 1) + 31 * i) % 256]

(* __init__: code_challenge from code_verifier *)
code_challenge(v) == rstrip_pad(urlsafe_b64encode(sha256(v)))

(* secrets.token_urlsafe(nbytes): URL-safe text of nbytes random bytes, without
   padding *)
token_urlsafe(bs) == rstrip_pad(urlsafe_b64encode(bs))

(* outcomes of the random source in the model: byte strings of every length
   modulo three *)
RandomBytes == {<<0>>, <<251>>, <<255, 16>>, <<77, 1, 250>>, <<3, 200, 9, 64>>}

(* a fetcher whose verifier is kept at module level: the first one drawn is
   used by every later fetcher *)
new_fetcher_shared(bs) ==
    [verifier  |-> IF attempts = <<>> THEN token_urlsafe(bs) ELSE attempts[1].verifier,
     challenge |-> code_challenge(token_urlsafe(bs)),
     url |-> NoVal, sent |-> NoVal]

(* PixivPlaywrightTokenFetcher(...): every object draws its own verifier and
   derives its challenge from it *)
new_fetcher(bs) ==
    [verifier  |-> token_urlsafe(bs),
     challenge |-> code_challenge(token_urlsafe(bs)),
     url |-> NoVal, sent |-> NoVal]

(* get_token_with_playwright creates the fetcher of one attempt.  The random
   source is a cryptographic generator: it does not return a value twice. *)
fetcher_init(bs) ==
    /\ Len(attempts) < MaxAttempts
    /\ token_urlsafe(bs) \notin drawn
    /\ drawn' = drawn \cup {token_urlsafe(bs)}
    /\ attempts' = Append(attempts, new_fetcher(bs))
    /\ UNCHANGED <<storeVars, runVars, readVars, vtVars, procVars, permVars,
                   loopVars>>

(* fetch_code: page.goto(self.get_login_url()) with the fetcher's challenge *)
get_login_url(k) ==
    /\ k \in 1..Len(attempts)
    /\ ~attempts[k].url.some
    /\ attempts' = [attempts EXCEPT ![k].url = Some(attempts[k].challenge)]
    /\ UNCHANGED <<drawn, storeVars, runVars, readVars, vtVars, procVars, permVars,
                   loopVars>>

(* exchange_token: the POST carries self.code_verifier *)
exchange_token_data(k) ==
    /\ k \in 1..Len(attempts)
    /\ attempts[k].url.some
    /\ ~attempts[k].sent.some
    /\ attempts' = [attempts EXCEPT ![k].sent = Some(attempts[k].verifier)]
    /\ UNCHANGED <<drawn, storeVars, runVars, readVars, vtVars, procVars, permVars,
                   loopVars>>

NextPkce ==
    \/ \E bs \in RandomBytes : fetcher_init(bs)
    \/ \E k \in 1..MaxAttempts : get_login_url(k)
    \/ \E k \in 1..MaxAttempts : exchange_token_data(k)

SpecPkce == InitFormat /\ [][NextPkce]_vars

----------------------------------------------------------------------------
(* The API facade and the tool dispatcher of a serving process *)

(* the cached clients as one value *)
Facade(a, b) == [api |-> a, bypass |-> b]

(* AppPixivAPI.auth(refresh_token=...): succeeds when the token endpoint can be
   reached (up) and accepts the token, raises PixivError otherwise *)
auth(token, up) == up /\ endpoint_accepts(token)

(* a get_api that makes and authenticates a new client on every call *)
get_api_uncached(fs, e, f, up) ==
    LET t == get_refresh_token(e, f)
    IN  IF t.raised THEN [fs |-> fs, raised |-> TRUE, client |-> NoClient, auths |-> 0]
        ELSE LET c == Client(auth(t.val, up), t.val)
             IN  [fs |-> [fs EXCEPT !.api = c],
                  raised |-> ~c.authed,
                  client |-> IF c.authed THEN c ELSE NoClient,
                  auths |-> 1]

(* get_api: a cached object is returned as it is; otherwise the credential is
   read (ValueError when there is none), the object is created and stored in
   _api, and then auth() is called on it: when auth() raises, the object stays
   in _api;
   auths: the number of auth() calls the call made *)
get_api(fs, e, f, up) ==
    IF fs.api.made THEN [fs |-> fs, raised |-> FALSE, client |-> fs.api, auths |-> 0]
    ELSE LET t == get_refresh_token(e, f)
         IN  IF t.raised THEN [fs |-> fs, raised |-> TRUE, client |-> NoClient, auths |-> 0]
             ELSE LET c == Client(auth(t.val, up), t.val)
                  IN  [fs |-> [fs EXCEPT !.api = c],
                       raised |-> ~c.authed,
                       client |-> IF c.authed THEN c ELSE NoClient,
                       auths |-> 1]

(* get_bypass_api: the same with _bypass_api; what require_appapi_hosts raises
   is swallowed *)
get_bypass_api(fs, e, f, up) ==
    IF fs.bypass.made THEN [fs |-> fs, raised |-> FALSE, client |-> fs.bypass]
    ELSE LET t == get_refresh_token(e, f)
         IN  IF t.raised THEN [fs |-> fs, raised |-> TRUE, client |-> NoClient]
             ELSE LET c == Client(auth(t.val, up), t.val)
                  IN  [fs |-> [fs EXCEPT !.bypass = c],
                       raised |-> ~c.authed,
                       client |-> IF c.authed THEN c ELSE NoClient]

(* get_api_with_fallback: the bypass client, or get_api when that raised *)
get_api_with_fallback(fs, e, f, upB, upS) ==
    LET b == get_bypass_api(fs, e, f, upB)
    IN  IF ~b.raised THEN b ELSE get_api(b.fs, e, f, upS)

(* an upstream call through client c: a client without access token raises
   "Authentication required", an authenticated one succeeds when the API
   answers (ok) *)
upstream(c, ok) == c.authed /\ ok

(* a handler that takes get_api() and makes one upstream call (search_illust,
   illust_detail, user_detail, ...); exc: the handler raised *)
api_tool(fs, e, f, up, ok) ==
    LET g == get_api(fs, e, f, up)
    IN  [fs |-> g.fs, exc |-> g.raised \/ ~upstream(g.client, ok), client |-> g.client]

(* novel_text: get_api_with_fallback, one call, and on its failure a second
   call through get_api *)
novel_text(fs, e, f, upB, upS, ok1, ok2) ==
    LET g == get_api_with_fallback(fs, e, f, upB, upS)
    IN  IF g.raised THEN [fs |-> g.fs, exc |-> TRUE, client |-> NoClient]
        ELSE IF upstream(g.client, ok1)
        THEN [fs |-> g.fs, exc |-> FALSE, client |-> g.client]
        ELSE LET h == get_api(g.fs, e, f, upS)
             IN  [fs |-> h.fs, exc |-> h.raised \/ ~upstream(h.client, ok2),
                  client |-> h.client]

(* names a caller may pass: tools of the three kinds of handler, and a name
   that is not registered *)
ToolNames == {"pixiv_illust_detail", "pixiv_novel_text", "get_current_time"}
CallNames == ToolNames \cup {"no_such_tool"}

(* argument bags: matching the tool's parameter model or not *)
ArgBags == {"valid", "invalid"}

(* building the tool's parameter model from the arguments:
   GetCurrentTimeParams has no field and takes any bag *)
params_ok(name, arguments) == name = "get_current_time" \/ arguments = "valid"

(* the handler dispatch selects, run on the facade fs *)
handler(name, arguments, fs, e, f, upB, upS, ok1, ok2) ==
    CASE name \notin ToolNames -> [fs |-> fs, exc |-> TRUE, client |-> NoClient]
      [] name \in ToolNames /\ ~params_ok(name, arguments) ->
             [fs |-> fs, exc |-> TRUE, client |-> NoClient]
      [] name = "get_current_time" -> [fs |-> fs, exc |-> FALSE, client |-> NoClient]
      [] name = "pixiv_novel_text" /\ params_ok(name, arguments) ->
             novel_text(fs, e, f, upB, upS, ok1, ok2)
      [] OTHER -> api_tool(fs, e, f, upS, ok1)

(* dispatch without its try/except *)
dispatch_return_uncaught(name, exc, c) ==
    IF exc THEN [kind |-> "raised", keys |-> {}, tool |-> name, client |-> c]
    ELSE [kind |-> "payload", keys |-> {}, tool |-> name, client |-> c]

(* dispatch's try/except: the handler's payload, or the envelope built from the
   exception *)
dispatch_return(name, exc, c) ==
    IF exc
    THEN [kind |-> "envelope", keys |-> {"error", "tool", "arguments"},
          tool |-> name, client |-> c]
    ELSE [kind |-> "payload", keys |-> {}, tool |-> name, client |-> c]

(* the transport hands a tool call to dispatch: stdio after app.run has started
   inside main, http after the lifespan's yield *)
dispatch(name, arguments, upB, upS, ok1, ok2) ==
    /\ cmd \in ServerEntries
    /\ pc = "idle"
    /\ outcome = "serving"
    /\ LET h == handler(name, arguments, Facade(api, bypass_api), env, file,
                        upB, upS, ok1, ok2)
       IN  /\ api' = h.fs.api
           /\ bypass_api' = h.fs.bypass
           /\ result' = dispatch_return(name, h.exc, h.client)
    /\ UNCHANGED <<storeVars, runVars, readVars, vtVars, pkceVars, ensureCalls,
                   permVars, loopVars>>

(* a host with Playwright installed, no gppt, no saved account *)
InitApi == Init /\ credsSaved = FALSE /\ pwAvail = TRUE /\ gpptAvail = FALSE

(* a server process: the startup check with auto_setup_token and the browser
   session, then tool calls *)
NextApi ==
    \/ \E entry \in ServerEntries, answer \in Answers : server_main(entry, answer)
    \/ \E choice \in 1..3, installed \in BOOLEAN : auto_setup_token_tools(choice, installed)
    \/ \E useSaved \in Answers, choice \in MenuChoices, typed \in ManualInputs :
          auto_setup_token_menu(useSaved, choice, typed)
    \/ \E given \in BOOLEAN : get_token_with_playwright(given)
    \/ \E navigated \in BOOLEAN : fetch_code_open(navigated)
    \/ \E kind \in RequestKinds, c \in Codes : observe(kind, c)
    \/ \E appears \in BOOLEAN : perform_auto_login_username(appears)
    \/ \E appears \in BOOLEAN : perform_auto_login_password(appears)
    \/ \E r \in CloseRaises : fetch_code_return(r)
    \/ \E resp \in Responses, save \in Answers : exchange_token(resp, save)
    \/ keyboard_interrupt
    \/ \E name \in CallNames, arguments \in ArgBags, upB \in BOOLEAN, upS \in BOOLEAN,
          ok1 \in BOOLEAN, ok2 \in BOOLEAN : dispatch(name, arguments, upB, upS, ok1, ok2)

SpecApi == InitApi /\ [][NextApi]_vars

----------------------------------------------------------------------------
(* The HTTP front-end: requests as tasks of one event loop.  A task runs
   without interruption up to its next await; get_api is synchronous, the
   upstream call is awaited through asyncio.to_thread. *)

(* tool names a request may carry: a handler with an upstream call, one
   without, and a name that is not registered *)
HttpNames == {"pixiv_illust_detail", "get_current_time", "no_such_tool"}

Endpoints == {"/mcp/tools", "/api/illust"}

(* POST /mcp/tools/{tool_name}: a name that is not in TOOLS, or an exception out
   of dispatch, gives the JSON-RPC error object; otherwise the object with
   "result", the serialised return value of dispatch and "isError": False *)
call_tool_reply(tool_name, r) ==
    IF tool_name \notin ToolNames \/ r.kind = "raised"
    THEN [status |-> 200, body |-> "error", data |-> "none"]
    ELSE [status |-> 200, body |-> "result", data |-> r.kind]

(* GET /api/illust/{illust_id} (and /api/search, /api/ranking, /api/user alike):
   {"success": True, "data": result}, or HTTP 500 on an exception out of
   dispatch *)
api_illust_detail_reply(r) ==
    IF r.kind = "raised"
    THEN [status |-> 500, body |-> "detail", data |-> "none"]
    ELSE [status |-> 200, body |-> "success", data |-> r.kind]

endpoint_reply(endpoint, name, r) ==
    IF endpoint = "/mcp/tools" THEN call_tool_reply(name, r)
    ELSE api_illust_detail_reply(r)

(* a request arrives and runs up to its first await: the endpoint's check of
   the name, dispatch, the parameter model, and in the handler get_api() *)
request_start(t, endpoint, name, arguments, up) ==
    /\ cmd = "http"
    /\ pc = "idle"
    /\ outcome = "serving"
    /\ tasks[t].phase # "awaiting"
    /\ authCalls <= MaxAuthCalls
    /\ endpoint = "/api/illust" => (name = "pixiv_illust_detail" /\ arguments = "valid")
    /\ LET replied(r) == [phase |-> "replied", endpoint |-> endpoint, name |-> name,
                          client |-> r.client, reply |-> endpoint_reply(endpoint, name, r)]
       IN  IF name \notin ToolNames
           THEN /\ tasks' = [tasks EXCEPT ![t] = replied(NoResult)]
                /\ UNCHANGED <<api, result, authCalls>>
           ELSE IF ~params_ok(name, arguments) \/ name = "get_current_time"
           THEN LET r == dispatch_return(name, ~params_ok(name, arguments), NoClient)
                IN  /\ tasks' = [tasks EXCEPT ![t] = replied(r)]
                    /\ result' = r
                    /\ UNCHANGED <<api, authCalls>>
           ELSE LET g == get_api(Facade(api, bypass_api), env, file, up)
                    r == dispatch_return(name, TRUE, g.client)
                IN  /\ api' = g.fs.api
                    /\ authCalls' = authCalls + g.auths
                    /\ IF g.raised
                       THEN /\ tasks' = [tasks EXCEPT ![t] = replied(r)]
                            /\ result' = r
                       ELSE /\ tasks' = [tasks EXCEPT ![t] =
                                           [phase |-> "awaiting", endpoint |-> endpoint,
                                            name |-> name, client |-> g.client,
                                            reply |-> NoReply]]
                            /\ result' = result
    /\ UNCHANGED <<storeVars, runVars, readVars, vtVars, pkceVars, permVars,
                   bypass_api, ensureCalls>>

(* the awaited upstream call of task t completes: the handler returns or
   raises, dispatch returns, the endpoint answers *)
request_finish(t, ok) ==
    /\ tasks[t].phase = "awaiting"
    /\ LET r == dispatch_return(tasks[t].name, ~upstream(tasks[t].client, ok),
                                tasks[t].client)
       IN  /\ result' = r
           /\ tasks' = [tasks EXCEPT ![t].phase = "replied",
                                     ![t].reply = endpoint_reply(tasks[t].endpoint,
                                                                 tasks[t].name, r)]
    /\ UNCHANGED <<storeVars, runVars, readVars, vtVars, pkceVars, permVars, api,
                   bypass_api, ensureCalls, authCalls>>

(* server processes on the host of InitApi whose startup check passes on the
   cached credential (another outcome of the check ends the behaviour), and
   the requests they serve *)
NextHttp ==
    \/ \E entry \in ServerEntries, answer \in Answers : server_main(entry, answer)
    \/ \E t \in TaskIds, endpoint \in Endpoints, name \in HttpNames,
          arguments \in ArgBags, up \in BOOLEAN :
          request_start(t, endpoint, name, arguments, up)
    \/ \E t \in TaskIds, ok \in BOOLEAN : request_finish(t, ok)

SpecHttp == InitApi /\ [][NextHttp]_vars

----------------------------------------------------------------------------
(* The two writers of secrets, statement by statement *)

(* d & ~u on one octal digit *)
and_not(d, u) ==
    (IF (d \div 4) % 2 = 1 /\ (u \div 4) % 2 = 0 THEN 4 ELSE 0)
      + (IF (d \div 2) % 2 = 1 /\ (u \div 2) % 2 = 0 THEN 2 ELSE 0)
      + (IF d % 2 = 1 /\ u % 2 = 0 THEN 1 ELSE 0)

(* open(path, 'w') / Path.write_text on a path: a new file gets 0666 & ~umask,
   an existing file keeps its bits *)
mode_after_write(mode, um) ==
    IF mode = NoMode THEN [i \in 1..3 |-> and_not(6, um[i])] ELSE mode

(* file mode creation masks of the hosts: 022, 002, 077 *)
Umasks == {<<0, 2, 2>>, <<0, 0, 2>>, <<0, 7, 7>>}

(* bits of a file the operator made by hand, as the manual-configuration text
   tells them to, or that an earlier run of this system left *)
UserModes == {Mode600, <<6, 4, 4>>}

(* tokens handed to setup_token_file *)
WrittenTokens == {IssuedToken(1), IssuedToken(2) \o <<" ">>}

InitPerm ==
    /\ env = NoVal
    /\ file \in FileValues
    /\ credsSaved \in BOOLEAN
    /\ pwAvail = TRUE
    /\ gpptAvail = FALSE
    /\ cmd = "none"
    /\ pc = "idle"
    /\ runs = 0
    /\ log = <<>>
    /\ outcome = "none"
    /\ declined = FALSE
    /\ args = NoArgs
    /\ sess = NoSess
    /\ newTok = NoVal
    /\ file0 = file
    /\ issued = 0
    /\ dead = {}
    /\ readBy = "none"
    /\ readVal = Raised
    /\ vtIn = <<>>
    /\ vtOut = "none"
    /\ drawn = {}
    /\ attempts = <<>>
    /\ api = NoClient
    /\ bypass_api = NoClient
    /\ result = NoResult
    /\ ensureCalls = 0
    /\ umask \in Umasks
    /\ fileMode \in IF file.some THEN UserModes ELSE {NoMode}
    /\ credsMode \in IF credsSaved THEN UserModes ELSE {NoMode}
    /\ permPc = "idle"
    /\ owned = {}
    /\ tasks = NoTasks
    /\ authCalls = 0

(* setup_token_file, TOKEN_FILE.write_text(token.strip()) *)
setup_token_file_write(token) ==
    /\ permPc = "idle"
    /\ file' = setup_token_file(token)
    /\ fileMode' = mode_after_write(fileMode, umask)
    /\ owned' = owned \cup {"token"}
    /\ permPc' = "token_chmod"
    /\ UNCHANGED <<env, credsSaved, pwAvail, gpptAvail, runVars, readVars, vtVars,
                   pkceVars, procVars, loopVars, umask, credsMode>>

(* setup_token_file, TOKEN_FILE.chmod(0o600) *)
setup_token_file_chmod ==
    /\ permPc = "token_chmod"
    /\ fileMode' = Mode600
    /\ permPc' = "idle"
    /\ UNCHANGED <<storeVars, runVars, readVars, vtVars, pkceVars, procVars,
                   loopVars, umask,
                   credsMode, owned>>

(* save_user_credentials, open(USER_CREDENTIALS_FILE, 'w') and json.dump *)
save_user_credentials_write ==
    /\ permPc = "idle"
    /\ credsSaved' = TRUE
    /\ credsMode' = mode_after_write(credsMode, umask)
    /\ owned' = owned \cup {"credentials"}
    /\ permPc' = "credentials_chmod"
    /\ UNCHANGED <<env, file, pwAvail, gpptAvail, runVars, readVars, vtVars,
                   pkceVars, procVars, loopVars, umask, fileMode>>

(* save_user_credentials, USER_CREDENTIALS_FILE.chmod(0o600) *)
save_user_credentials_chmod ==
    /\ permPc = "credentials_chmod"
    /\ credsMode' = Mode600
    /\ permPc' = "idle"
    /\ UNCHANGED <<storeVars, runVars, readVars, vtVars, pkceVars, procVars,
                   loopVars, umask,
                   fileMode, owned>>

NextPerm ==
    \/ \E token \in WrittenTokens : setup_token_file_write(token)
    \/ setup_token_file_chmod
    \/ save_user_credentials_write
    \/ save_user_credentials_chmod

SpecPerm == InitPerm /\ [][NextPerm]_vars

----------------------------------------------------------------------------
(* Properties *)

Has(l, e) == \E i \in 1..Len(l) : l[i] = e

(* the store location o holds a refresh token *)
HoldsToken(o) == o.some /\ strip(o.val) # <<>>

(* C1: whenever environment and token file both hold a refresh token, every
   read path (get_refresh_token, get_saved_token) returns the environment's
   value, never the file's. *)
C1_EnvAlwaysWins ==
    (HoldsToken(env) /\ HoldsToken(file) /\ readBy # "none")
        => (~readVal.raised /\ strip(readVal.val) = strip(env.val))

(* C2: after a successful refresh whose result was written to the store, the
   next get_refresh_token returns the newly issued token and never a token
   that the refresh replaced. *)
C2_RotationVisible ==
    (cmd = "refresh" /\ outcome = "exit0" /\ readBy = "get_refresh_token")
        => (~readVal.raised /\ readVal.val = newTok.val /\ readVal.val \notin dead)

(* C3: whenever a run reports success (the server starts serving, a token
   manager command exits with status 0) after acquiring a refresh token, that
   token has been written to the token file. *)
C3_PersistedBeforeSuccess ==
    (pc = "idle" /\ outcome \in {"serving", "exit0"} /\ Truthy(newTok))
        => (Has(log, "write") /\ file = Some(strip(newTok.val)))

(* C4: ensure_refresh_token returns without any acquisition step only if the
   credential found in the store (environment value or token file) is non-empty
   and passes the format check. *)
C4_AcceptedOnlyIfValid ==
    (cmd \in ServerEntries /\ pc = "idle" /\ outcome = "serving" /\ log = <<>>)
        => LET found == IF Truthy(env) THEN env.val ELSE strip(file0.val)
           IN  found # <<>> /\ Len(found) >= 20

(* C5: validate_token_format returns False for every token that is empty or
   shorter than 20 characters, whatever its content, and True for every token
   of 20 characters or more. *)
C5_FormatCheck ==
    vtOut # "none" => (vtOut = "True" <=> Len(vtIn) >= 20)

C5_Witness == vtOut = "False" /\ Len(vtIn) = 19 /\ vtIn[1] # vtIn[2]

(* the credential get_refresh_token would return at the start of the run is
   there and passes the format check *)
CachedValid ==
    LET c == get_refresh_token(env, file0)
    IN  ~c.raised /\ c.val # <<>> /\ Len(c.val) >= 20

(* C6: with a cached credential that passes the format check,
   ensure_refresh_token returns at once: no prompt, no browser launch, no
   request to the token endpoint, no write; the stored credential is unchanged
   and the server goes on to serve. *)
C6_CachedReturnsImmediately ==
    (cmd \in ServerEntries /\ CachedValid)
        => /\ pc = "idle"
           /\ log = <<>>
           /\ sess = NoSess
           /\ file = file0
           /\ newTok = NoVal
           /\ outcome = "serving"

C6_Witness ==
    cmd \in ServerEntries /\ CachedValid /\ ~Truthy(env) /\ outcome = "serving"

(* C7: with no credential in the environment or the file and the operator
   declining automatic configuration, the server entry point ends with a
   non-zero exit status, never serves, launches no browser and does not write
   the token file. *)
C7_DeclineExitsNonZero ==
    (cmd \in ServerEntries /\ declined /\ ~Truthy(env) /\ ~HoldsToken(file0))
        => /\ pc = "idle"
           /\ outcome = "exit1"
           /\ ~Has(log, "launch")
           /\ ~Has(log, "write")
           /\ sess = NoSess
           /\ file = file0

C7_Witness ==
    cmd = "http" /\ declined /\ ~env.some /\ ~file0.some /\ outcome = "exit1"

(* C8: on every path of ensure_refresh_token that reaches sys.exit(1), the
   manual-configuration text has been printed earlier in the same run. *)
C8_RemediationBeforeExit ==
    \A i \in 1..Len(log) :
        log[i] = "sys_exit" => \E j \in 1..(i - 1) : log[j] = "remediation"

C8_Witness == Has(log, "sys_exit") /\ ~declined /\ Has(log, "launch")

(* C9: every execution of fetch_code ends with page, context and browser
   closed, on every exit path. *)
C9_AlwaysClosed ==
    sess.driver = "stopped" => AllClosed(sess)

Handles(s) == <<s.page, s.context, s.browser>>

(* C10: the teardown is idempotent: from every state of the handles the session
   can be in (the page possibly closed already by the request observer), and
   whatever closing a closed handle does, cleanup_and_return raises nothing and
   leaves all three closed, and a second run of it changes nothing; the
   teardown fetch_code actually ran let no error escape. *)
C10_TeardownIdempotent ==
    /\ sess.page # "none" =>
          \A r1 \in CloseRaises, r2 \in CloseRaises :
              LET a == cleanup_and_return(sess, r1)
                  b == cleanup_and_return(a.sess, r2)
              IN  /\ ~a.escaped
                  /\ AllClosed(a.sess)
                  /\ ~b.escaped
                  /\ Handles(b.sess) = Handles(a.sess)
    /\ sess.cleanups > 0 => (AllClosed(sess) /\ ~Has(log, "cleanup_raised"))

C10_Witness ==
    sess.cleanups = 1 /\ Truthy(sess.captured) /\ AllClosed(sess)

(* C11: when the wait for the page to close times out and no request with an
   authorization code was observed, fetch_code has run the teardown exactly
   once and returned None: no exception left it, no code was exchanged, and
   its caller got no token. *)
C11_TimeoutReturnsNoCode ==
    (Has(log, "timeout") /\ ~Truthy(sess.captured))
        => /\ sess.cleanups = 1
           /\ AllClosed(sess)
           /\ ~Has(log, "cleanup_raised")
           /\ ~Has(log, "post_code")
           /\ newTok = NoVal
           /\ pc = "idle"

C11_Witness ==
    Has(log, "timeout") /\ ~Truthy(sess.captured) /\ sess.events = MaxEvents
        /\ sess.cleanups = 1 /\ outcome = "exit1"

(* C12: a token endpoint response without a refresh_token, or with an empty
   one, is a failure for both grants: get_tokens and refresh_existing_token
   return None, the run ends with a non-zero status and the token file is
   not written. *)
C12_MissingRefreshTokenFails ==
    (Has(log, "norefresh") \/ Has(log, "emptyrefresh"))
        => /\ newTok = NoVal
           /\ ~Has(log, "write")
           /\ file = file0
           /\ pc = "idle"
           /\ outcome = "exit1"

C12_Witness ==
    /\ Has(log, "post_code") /\ Has(log, "norefresh")
    /\ file0.some /\ file = file0 /\ outcome = "exit1"

(* bit p (from 1, most significant first) of the byte string bs, 0 past its end *)
BitAt(bs, p) ==
    IF p > 8 * Len(bs) THEN 0
    ELSE (bs[((p - 1) \div 8) + 1] \div (2 ^ (7 - ((p - 1) % 8)))) % 2

(* base64url without padding, as RFC 7636 defines it: the bits of the input
   taken six at a time, the last group filled with zero bits *)
Base64UrlNoPad(bs) ==
    [k \in 1..((8 * Len(bs) + 5) \div 6) |->
        B64[1 + 32 * BitAt(bs, 6 * k - 5) + 16 * BitAt(bs, 6 * k - 4)
              + 8 * BitAt(bs, 6 * k - 3) + 4 * BitAt(bs, 6 * k - 2)
              + 2 * BitAt(bs, 6 * k - 1) + BitAt(bs, 6 * k)]]

(* C13: every fetcher's challenge is the unpadded base64url text of the digest
   of its own verifier, no two fetchers have the same verifier, and the
   code_verifier sent in an attempt's token exchange is the one whose challenge
   was in the login URL of that attempt. *)
C13_PkcePerAttempt ==
    /\ \A k \in 1..Len(attempts) :
          /\ attempts[k].challenge = Base64UrlNoPad(sha256(attempts[k].verifier))
          /\ attempts[k].sent.some =>
                /\ attempts[k].url.some
                /\ attempts[k].url.val = Base64UrlNoPad(sha256(attempts[k].sent.val))
    /\ \A j, k \in 1..Len(attempts) :
          j # k => attempts[j].verifier # attempts[k].verifier

C13_Witness ==
    /\ Len(attempts) = MaxAttempts
    /\ \A k \in 1..Len(attempts) : attempts[k].sent.some
    /\ \E k \in 1..Len(attempts) : Len(attempts[k].verifier) = 6

(* C14: when a browser session or token exchange started by the startup check
   fails, the operator is offered the next acquisition method before the
   fatal exit: every launch of a run that ends in sys.exit(1) is followed by
   another prompt. *)
C14_FallbackAfterFailure ==
    (cmd \in ServerEntries /\ Has(log, "sys_exit"))
        => \A i \in 1..Len(log) :
              log[i] = "launch" => \E j \in (i + 1)..Len(log) : log[j] = "prompt"

(* whether a call fails, from the facade state (a, b) *)
Fails(name, arguments, a, b, upB, upS, ok1, ok2) ==
    handler(name, arguments, Facade(a, b), env, file, upB, upS, ok1, ok2).exc

(* C15: every dispatch returns the handler's payload or an envelope with
   exactly the keys error, tool, arguments, never an exception; the server
   keeps serving, and a call that failed leaves every later call to another
   tool with the outcome it would have had without the failed call. *)
C15_DispatchContained ==
    [][result'.kind # "none" =>
          /\ result'.kind \in {"payload", "envelope"}
          /\ result'.kind = "envelope" => result'.keys = {"error", "tool", "arguments"}
          /\ outcome' = "serving"
          /\ result'.kind = "envelope" =>
                \A name \in CallNames \ {result'.tool}, arguments \in ArgBags,
                   upB \in BOOLEAN, upS \in BOOLEAN, ok1 \in BOOLEAN, ok2 \in BOOLEAN :
                    Fails(name, arguments, api', bypass_api', upB, upS, ok1, ok2)
                      = Fails(name, arguments, api, bypass_api, upB, upS, ok1, ok2)
      ]_vars

(* C16: a client kept in _api or _bypass_api, and every client a facade
   function returned to a handler, has completed auth() with the refresh
   credential of the store. *)
C16_ClientsAuthenticated ==
    \A c \in {api, bypass_api, result.client} :
        c.made => (c.authed /\ Ok(c.token) = get_refresh_token(env, file))

(* C19: a tool call is dispatched only in a server process whose one call of
   ensure_refresh_token has returned normally; while the startup check is
   running, and after it ended in sys.exit or in an exception, the process
   does not serve and no call has been dispatched. *)
C19_EnsureBeforeDispatch ==
    /\ result.kind # "none" =>
          /\ cmd \in ServerEntries
          /\ ensureCalls = 1
          /\ pc = "idle"
          /\ outcome = "serving"
    /\ (pc # "idle" \/ Has(log, "sys_exit") \/ Has(log, "KeyboardInterrupt")) =>
          (outcome # "serving" /\ result.kind = "none")
    /\ outcome = "serving" => ensureCalls = 1

C19_Witness ==
    /\ result.kind = "payload" /\ result.tool = "pixiv_novel_text"
    /\ cmd = "http" /\ Has(log, "post_code") /\ Has(log, "write")

(* C17: an operator interrupt while the browser session is open still ends
   with the teardown run and page, context and browser closed. *)
C17_InterruptStillCloses ==
    Has(log, "KeyboardInterrupt") => (sess.cleanups >= 1 /\ AllClosed(sess))

(* C18: a token file or credentials file whose content this system wrote is
   readable and writable by the owner only (mode 0600), in every state,
   the one between the write and the chmod included. *)
C18_SecretsOwnerOnly ==
    /\ "token" \in owned => fileMode = Mode600
    /\ "credentials" \in owned => credsMode = Mode600

Count(l, e) == Cardinality({i \in 1..Len(l) : l[i] = e})

(* what a failed step leaves in the log *)
FailureEvents ==
    {"goto_failed", "login_failed", "timeout", "error", "norefresh", "emptyrefresh"}

(* C20: nothing is retried: a run starts the browser at most once and sends at
   most one authorization_code POST and at most one refresh_token POST, the
   refresh command sends exactly one when it found a token to refresh, and
   after a failed step there is no further launch and no further POST. *)
C20_SingleShot ==
    /\ Count(log, "launch") <= 1
    /\ Count(log, "post_code") <= 1
    /\ Count(log, "post_refresh") <= 1
    /\ (cmd = "refresh" /\ pc = "idle" /\ ~get_refresh_token(env, file0).raised)
          => Count(log, "post_refresh") = 1
    /\ \A i \in 1..Len(log) :
          log[i] \in FailureEvents =>
              \A j \in (i + 1)..Len(log) :
                  log[j] \notin {"launch", "post_code", "post_refresh"}

C20_Witness ==
    /\ Has(log, "launch") /\ Has(log, "post_code") /\ Has(log, "error")
    /\ pc = "idle" /\ outcome = "exit1"

(* C21: the stored authorization code is that of the first request with the
   login prefix and a code: no later request changes it; storing a code goes
   with closing the page, and a request that stores nothing leaves the page
   as it was. *)
C21_FirstMatchKept ==
    [][/\ (Truthy(sess.captured) /\ Truthy(sess'.captured))
             => sess'.captured = sess.captured
       /\ Truthy(sess'.captured) => sess'.page = "closed"
       /\ (sess'.events = sess.events + 1 /\ sess'.captured = sess.captured)
             => sess'.page = sess.page
      ]_vars

(* C22: auto-login takes the two fields in sequence and stops at the first
   that does not appear: the password is typed only after the user name was
   typed and submitted, and after a failed field there is no password entry,
   no wait for the code, no teardown return and no token exchange. *)
C22_LoginInSequence ==
    \A i \in 1..Len(log) :
        /\ log[i] = "password" => \E j \in 1..(i - 1) : log[j] = "username"
        /\ log[i] = "login_failed" =>
              \A j \in (i + 1)..Len(log) :
                  log[j] \notin {"username", "password", "timeout", "cleanup", "post_code"}

C22_Witness ==
    /\ Has(log, "username") /\ Has(log, "login_failed") /\ pc = "idle"
    /\ ~Truthy(sess.captured)

(* C23: no access token is ever persisted: the token file never holds one,
   the environment variable is never given one, and the token a run hands to
   the writer is a refresh token. *)
C23_AccessTokenNotPersisted ==
    \A i \in 1..(MaxRuns + 1) :
        /\ file # Some(AccessToken(i))
        /\ env # Some(AccessToken(i))
        /\ newTok # Some(AccessToken(i))

C23_Witness ==
    /\ Has(log, "post_code") /\ Has(log, "write")
    /\ file = Some(IssuedToken(issued)) /\ issued >= 1

(* C24: in auto_setup_token the saved-account path is taken only when a saved
   pair exists and the operator accepted it, and it calls the automation
   headless; the interactive branch calls it non-headless; and a browser
   session of the fetcher runs in the mode of the call. *)
C24_PathModes ==
    /\ pc = "auto_setup_menu" =>
          \A useSaved \in Answers, choice \in MenuChoices :
              LET d == auto_setup_choice(useSaved, choice)
              IN  /\ d.via = "saved" => (credsSaved /\ useSaved \in Yes /\ d.headless)
                  /\ d.via = "interactive" => ~d.headless
    /\ args.via = "saved" => (credsSaved /\ args.haveCreds /\ args.headless)
    /\ args.via = "interactive" => ~args.headless
    /\ (pc \in SessionPcs /\ args.via \in {"saved", "interactive"})
          => sess.headless = args.headless

C24_Witness ==
    /\ pc \in SessionPcs
    /\ args.via = "interactive"
    /\ ~sess.headless
    /\ credsSaved

(* C26: in every tool configuration the lines of the method menu carry
   distinct numbers and typing the number of a line runs the method of that
   line. *)
C26_MenuNumbers ==
    pc = "auto_setup_menu" =>
        /\ \A i, j \in DOMAIN methods :
              i # j => methods[i].number # methods[j].number
        /\ \A i \in DOMAIN methods :
              auto_setup_choice("n", methods[i].number).via = methods[i].method

(* C25: a captured authorization code is never lost: whenever the observer
   stored a code during a session that the operator did not interrupt,
   fetch_code returned it and get_tokens posted it to the token endpoint. *)
C25_CapturedCodeUsed ==
    (pc = "idle" /\ Truthy(sess.captured) /\ ~Has(log, "KeyboardInterrupt"))
        => Has(log, "post_code")

(* C27: after ensure_refresh_token returned normally (the server entry went
   on to serve), get_refresh_token on the store as it is does not raise and
   returns a non-empty token. *)
C27_EnsureGuaranteesToken ==
    (cmd \in ServerEntries /\ pc = "idle" /\ outcome = "serving")
        => LET r == get_refresh_token(env, file)
           IN  ~r.raised /\ r.val # <<>>

(* C28: a failed refresh leaves the store as it was and is reported as a
   failure: when cmd_refresh found no current token, or the request failed, or
   the response carried no refresh_token, the token file is what it was when
   the command started and the exit status is 1. *)
C28_FailedRefreshKeepsFile ==
    (/\ cmd = "refresh"
     /\ pc = "idle"
     /\ \/ log = <<>>
        \/ Has(log, "error") \/ Has(log, "norefresh") \/ Has(log, "emptyrefresh"))
        => (file = file0 /\ outcome = "exit1")

C28_Witness ==
    /\ cmd = "refresh" /\ pc = "idle"
    /\ Has(log, "post_refresh") /\ Has(log, "norefresh")
    /\ file.some /\ file = file0 /\ outcome = "exit1"

(* C29: the HTTP front-end reports success truthfully: an answer with
   "isError": false from POST /mcp/tools/{tool_name}, or with "success": true
   from a REST endpoint, is given only when the dispatched tool completed
   without error. *)
C29_TruthfulSuccess ==
    \A t \in TaskIds :
        tasks[t].reply.body \in {"result", "success"}
            => tasks[t].reply.data = "payload"

(* C30: the standard client is made and authenticated at most once per
   process, whatever the interleaving of the requests: auth() is called at
   most once, every request that got a client from get_api holds the cached
   one, and once a client is cached no later call replaces it or calls auth()
   again. *)
C30_ClientMadeOnce ==
    /\ [](/\ authCalls <= 1
          /\ \A t \in TaskIds : tasks[t].phase = "awaiting" => tasks[t].client = api)
    /\ [][api.made => (api' = api /\ authCalls' = authCalls) \/ runs' # runs]_vars

C30_Witness ==
    /\ authCalls = 1
    /\ api.authed
    /\ \A t \in TaskIds : tasks[t].phase = "awaiting" /\ tasks[t].client = api

====
